---- MODULE Spec2Model ----
(***************************************************************************)
(* Model of market_analyzer_optimization/fyers_auth.py: the manual         *)
(* authorization-code login (authenticate_fyers), the token check          *)
(* (test_token) and the entry point that runs them once per invocation.    *)
(*                                                                         *)
(* Python values are records tagged with their type, strings are sequences *)
(* of one-character strings, the token file is a record that either does   *)
(* not exist or holds its content.  The vendor SDK is the environment:     *)
(* generate_authcode and set_token are local computations that return,     *)
(* generate_token and get_profile are network calls that return a mapping  *)
(* or raise.                                                               *)
(***************************************************************************)
EXTENDS Integers, Sequences, FiniteSets, TLC

VARIABLES pc, run, file, file0, redirect_url, auth_code, session_token,
          response, token, profile, valid, printed, calls, lastToken

\* pc             position of the run in the script
\* run            number of the current run of the script
\* file           fyers_token.txt
\* file0          fyers_token.txt as it was when the current run started
\* redirect_url   what the user pasted at the prompt
\* auth_code      the code cut out of redirect_url
\* session_token  the code handed to session.set_token
\* response       what session.generate_token returned
\* token          what authenticate_fyers returned to the entry point
\* profile        outcome of fyers.get_profile
\* valid          what test_token returned
\* printed        closing text of the run
\* calls          the calls made in the current run, in order
\* lastToken      access_token of the latest response that held one
vars == <<pc, run, file, file0, redirect_url, auth_code, session_token,
          response, token, profile, valid, printed, calls, lastToken>>

\* ------------------------------------------------------------------ bounds
\* number of pieces a pasted redirect string is assembled from
MaxParts == 4
\* number of times the script is run, one run after the other
MaxRuns == 2

\* ----------------------------------------------------------- Python values
PyNone == [type |-> "NoneType"]

PyStr(s) == [type |-> "str", val |-> s]

IsStr(v) == v.type = "str"

IsDict(v) == v.type = "dict"

\* key in mapping
HasKey(m, k) == k \in DOMAIN m

\* truth value of None or of a string: `if token:`
Truthy(v) == IsStr(v) /\ v.val # <<>>

\* ------------------------------------------------------------ the literals
\* "auth_code="
AuthKey == <<"a", "u", "t", "h", "_", "c", "o", "d", "e", "=">>

\* "&"
Amp == <<"&">>

Ok == <<"o", "k">>

\* ------------------------------------------------------------- str methods
\* sep occurs in s at position i
MatchAt(s, sep, i) ==
    /\ i >= 1
    /\ i + Len(sep) - 1 <= Len(s)
    /\ \A k \in 1..Len(sep) : s[i + k - 1] = sep[k]

RECURSIVE Find(_, _, _)
\* str.find: the lowest index >= i where sep occurs in s, 0 when there is none
Find(s, sep, i) ==
    IF i + Len(sep) - 1 > Len(s) THEN 0
    ELSE IF MatchAt(s, sep, i) THEN i
    ELSE Find(s, sep, i + 1)

\* sep in s
Contains(s, sep) == Find(s, sep, 1) # 0

RECURSIVE Split(_, _)
\* s.split(sep): the pieces of s between the non-overlapping occurrences of
\* sep, scanned left to right
Split(s, sep) ==
    LET j == Find(s, sep, 1) IN
    IF j = 0 THEN <<s>>
    ELSE <<SubSeq(s, 1, j - 1)>> \o Split(SubSeq(s, j + Len(sep), Len(s)), sep)

\* variant: the check looks for "auth_code", without the "="
HasAuthCodeKeyOnly(url) ==
    Contains(url, <<"a", "u", "t", "h", "_", "c", "o", "d", "e">>)

\* "auth_code=" not in redirect_url, negated
HasAuthCode(url) == Contains(url, AuthKey)

\* redirect_url.split("auth_code=")[1].split("&")[0]
ExtractAuthCode(url) == Split(Split(url, AuthKey)[2], Amp)[1]

\* ------------------------------------------------------------ the token file
Absent == [exists |-> FALSE]

\* open("fyers_token.txt", "w"): create or truncate
OpenW(f) == [exists |-> TRUE, content |-> <<>>]

\* variant: the text is written with a line end, as print would
FWriteLine(f, text) == [f EXCEPT !.content = @ \o text \o <<"\n">>]

\* f.write(text)
FWrite(f, text) == [f EXCEPT !.content = @ \o text]

\* variant: the file is opened in append mode
SaveTokenAppend(f, text) == FWrite(IF f.exists THEN f ELSE OpenW(f), text)

\* with open(...) as f: f.write(access_token)
SaveToken(f, text) == FWrite(OpenW(f), text)

\* ------------------------------------------------------------- environment
Pieces == {AuthKey, Amp, <<"X">>,
           <<"a", "u", "t", "h", "_", "c", "o", "d", "e">>}

RECURSIVE Flatten(_)
Flatten(ps) == IF ps = <<>> THEN <<>> ELSE Head(ps) \o Flatten(Tail(ps))

\* what the user may paste at the prompt, the empty string included
Inputs == {Flatten(ps) : ps \in UNION {[1..n -> Pieces] : n \in 0..MaxParts}}

Tokens == {<<>>, <<"t", "o", "k", "1">>, <<"t", "2">>}

Returned(v) == [raised |-> FALSE, value |-> v]

Raised == [raised |-> TRUE]

\* outcomes of session.generate_token()
TokenOutcomes ==
    {Raised, Returned([type |-> "dict", s |-> PyStr(<<"e", "r", "r", "o", "r">>)])}
    \cup {Returned([type |-> "dict", s |-> PyStr(Ok), access_token |-> PyStr(t)]) :
             t \in Tokens}

\* outcomes of fyers.get_profile()
ProfileOutcomes ==
    {Raised,
     Returned([type |-> "dict", code |-> PyStr(<<"5">>)]),
     Returned([type |-> "dict", s |-> PyStr(<<"e", "r", "r", "o", "r">>)]),
     Returned([type |-> "dict", s |-> PyStr(Ok)]),
     Returned([type |-> "dict", s |-> PyStr(Ok), data |-> PyNone]),
     Returned([type |-> "dict", s |-> PyStr(Ok), data |-> [type |-> "dict"]]),
     Returned([type |-> "dict", s |-> PyStr(Ok),
               data |-> [type |-> "dict", name |-> PyStr(<<"A">>)]])}

\* ------------------------------------------------------------------- state
NoResponse == [type |-> "unset"]

Init ==
    /\ pc = "start"
    /\ run = 1
    /\ file = Absent
    /\ file0 = Absent
    /\ redirect_url = PyNone
    /\ auth_code = PyNone
    /\ session_token = PyNone
    /\ response = NoResponse
    /\ token = PyNone
    /\ profile = NoResponse
    /\ valid = PyNone
    /\ printed = "none"
    /\ calls = <<>>
    /\ lastToken = PyNone

\* authenticate_fyers up to the prompt: session model, authorization URL,
\* instructions, browser
GenerateAuthUrl ==
    /\ pc = "start"
    /\ calls' = calls \o <<"generate_authcode", "webbrowser_open">>
    /\ pc' = "awaiting_input"
    /\ UNCHANGED <<run, file, file0, redirect_url, auth_code, session_token,
                   response, token, profile, valid, printed, lastToken>>

\* the prompt, the check for the code, its extraction and set_token
ReadRedirect(url) ==
    /\ pc = "awaiting_input"
    /\ redirect_url' = PyStr(url)
    /\ IF ~HasAuthCode(url)
         THEN /\ token' = PyNone
              /\ pc' = "returned"
              /\ calls' = Append(calls, "input")
              /\ UNCHANGED <<auth_code, session_token>>
         ELSE IF Len(Split(url, AuthKey)) < 2
         THEN \* IndexError out of authenticate_fyers
              /\ pc' = "crashed"
              /\ calls' = Append(calls, "input")
              /\ UNCHANGED <<auth_code, session_token, token>>
         ELSE /\ auth_code' = PyStr(ExtractAuthCode(url))
              /\ session_token' = auth_code'
              /\ calls' = calls \o <<"input", "set_token">>
              /\ pc' = "code_extracted"
              /\ UNCHANGED token
    /\ UNCHANGED <<run, file, file0, response, profile, valid, printed, lastToken>>

\* variant: the file is opened before the response is looked at
HandleResponseOpenFirst(resp) ==
    IF HasKey(resp, "access_token")
      THEN /\ file' = SaveToken(file, resp.access_token.val)
           /\ token' = resp.access_token
           /\ calls' = calls \o <<"generate_token", "write">>
      ELSE /\ token' = PyNone
           /\ calls' = Append(calls, "generate_token")
           /\ file' = OpenW(file)

\* the rest of authenticate_fyers for a response of generate_token
HandleResponse(resp) ==
    IF HasKey(resp, "access_token")
      THEN /\ file' = SaveToken(file, resp.access_token.val)
           /\ token' = resp.access_token
           /\ calls' = calls \o <<"generate_token", "write">>
      ELSE /\ token' = PyNone
           /\ calls' = Append(calls, "generate_token")
           /\ UNCHANGED file

\* generate_token, the check of its response, the file write and the return
ExchangeToken(out) ==
    /\ pc = "code_extracted"
    /\ IF out.raised
         THEN /\ pc' = "crashed"
              /\ calls' = Append(calls, "generate_token")
              /\ UNCHANGED <<response, token, file>>
         ELSE /\ response' = out.value
              /\ HandleResponse(out.value)
              /\ pc' = "returned"
    /\ lastToken' = IF ~out.raised /\ HasKey(out.value, "access_token")
                   THEN out.value.access_token
                   ELSE lastToken
    /\ UNCHANGED <<run, file0, redirect_url, auth_code, session_token, profile,
                   valid, printed>>

\* variant: the status comparison is inverted
TestTokenResultInverted(out) ==
    IF out.raised THEN FALSE
    ELSE LET prof == out.value IN
         IF HasKey(prof, "s") /\ prof.s # PyStr(Ok)
           THEN TRUE
           ELSE FALSE

\* the value test_token returns for an outcome of get_profile
TestTokenResult(out) ==
    IF out.raised THEN FALSE
    ELSE LET prof == out.value IN
         IF HasKey(prof, "s") /\ prof.s = PyStr(Ok)
           THEN \* profile['data'].get('name', 'Unknown'): KeyError and
                \* AttributeError end in the except clause
                IF HasKey(prof, "data") /\ IsDict(prof.data)
                  THEN TRUE
                  ELSE FALSE
           ELSE FALSE

\* variant: the entry point tests `token is not None`
TestTokenNotNone(out) ==
    /\ pc = "returned"
    /\ token # PyNone
    /\ profile' = out
    /\ valid' = [type |-> "bool", val |-> TestTokenResult(out)]
    /\ calls' = Append(calls, "get_profile")
    /\ pc' = "validated"
    /\ UNCHANGED <<run, file, file0, redirect_url, auth_code, session_token,
                   response, token, printed, lastToken>>

\* entry point, `if token:` taken: test_token(token)
TestToken(out) ==
    /\ pc = "returned"
    /\ Truthy(token)
    /\ profile' = out
    /\ valid' = [type |-> "bool", val |-> TestTokenResult(out)]
    /\ calls' = Append(calls, "get_profile")
    /\ pc' = "validated"
    /\ UNCHANGED <<run, file, file0, redirect_url, auth_code, session_token,
                   response, token, printed, lastToken>>

\* entry point, the "Next steps" text
PrintNextSteps ==
    /\ pc = "validated"
    /\ printed' = "next_steps"
    /\ pc' = "done"
    /\ UNCHANGED <<run, file, file0, redirect_url, auth_code, session_token,
                   response, token, profile, valid, calls, lastToken>>

\* entry point, `else:` taken: the troubleshooting text
PrintTroubleshooting ==
    /\ pc = "returned"
    /\ ~Truthy(token)
    /\ printed' = "troubleshooting"
    /\ pc' = "done"
    /\ UNCHANGED <<run, file, file0, redirect_url, auth_code, session_token,
                   response, token, profile, valid, calls, lastToken>>

\* the process has ended and the script is started again; only the token
\* file survives
RunAgain ==
    /\ pc \in {"done", "crashed"}
    /\ run < MaxRuns
    /\ run' = run + 1
    /\ pc' = "start"
    /\ file0' = file
    /\ redirect_url' = PyNone
    /\ auth_code' = PyNone
    /\ session_token' = PyNone
    /\ response' = NoResponse
    /\ token' = PyNone
    /\ profile' = NoResponse
    /\ valid' = PyNone
    /\ printed' = "none"
    /\ calls' = <<>>
    /\ UNCHANGED <<file, lastToken>>

Next ==
    \/ GenerateAuthUrl
    \/ \E url \in Inputs : ReadRedirect(url)
    \/ \E out \in TokenOutcomes : ExchangeToken(out)
    \/ \E out \in ProfileOutcomes : TestToken(out)
    \/ PrintNextSteps
    \/ PrintTroubleshooting
    \/ RunAgain

Spec == Init /\ [][Next]_vars


\* ------------------------------------------------------------- properties
\* sub occurs somewhere in s
Occurs(s, sub) ==
    \E i \in 1..(Len(s) - Len(sub) + 1) : SubSeq(s, i, i + Len(sub) - 1) = sub

\* the run is over: the closing text is out or an exception ended the process
Ended == pc \in {"done", "crashed"}

\* authenticate_fyers has returned to the entry point
AuthReturned == pc \in {"returned", "validated", "done"}

\* number of times op was called in this run
Count(op) == Cardinality({i \in 1..Len(calls) : calls[i] = op})

\* C1: a pasted string without "auth_code=", the empty string included, makes
\* authenticate_fyers return None with neither set_token nor generate_token
\* called and the token file as it was before the run.
C1_NoCodeNoExchange ==
    (redirect_url # PyNone /\ ~Occurs(redirect_url.val, AuthKey)) =>
        /\ AuthReturned
        /\ token = PyNone
        /\ Count("set_token") = 0
        /\ Count("generate_token") = 0
        /\ Count("write") = 0
        /\ session_token = PyNone
        /\ response = NoResponse
        /\ file = file0

C1_Witness ==
    /\ pc = "done"
    /\ redirect_url = PyStr(<<>>)
    /\ token = PyNone
    /\ file0.exists
    /\ file0.content # <<>>
    /\ file = file0

\* C2: a response of generate_token without the key access_token makes
\* authenticate_fyers return None and leaves the token file as it was before
\* the run, absent if it was absent and with the same content otherwise.
C2_NoTokenNoWrite ==
    (response # NoResponse /\ ~HasKey(response, "access_token")) =>
        /\ AuthReturned
        /\ token = PyNone
        /\ Count("write") = 0
        /\ file = file0

C2_Witness ==
    /\ pc = "done"
    /\ response # NoResponse
    /\ ~HasKey(response, "access_token")
    /\ file0.exists
    /\ file0.content # <<>>
    /\ file = file0

\* C3: a response of generate_token with access_token t leaves the token
\* file holding exactly t, the earlier content gone, and authenticate_fyers
\* returns t.
C3_TokenPersisted ==
    (response # NoResponse /\ HasKey(response, "access_token")) =>
        /\ AuthReturned
        /\ file.exists
        /\ file.content = response.access_token.val
        /\ token = response.access_token

C3_Witness ==
    /\ pc = "returned"
    /\ HasKey(response, "access_token")
    /\ response.access_token.val # <<>>
    /\ file0.exists
    /\ file0.content # <<>>
    /\ file0.content # response.access_token.val
    /\ file.content = response.access_token.val

\* position of the first occurrence of "auth_code=" in s
FirstKey(s) ==
    CHOOSE i \in 1..Len(s) :
        /\ MatchAt(s, AuthKey, i)
        /\ \A j \in 1..(i - 1) : ~MatchAt(s, AuthKey, j)

\* the characters after the first "auth_code=" up to the next "&", or to the
\* end of s when no "&" follows
CodeAfterFirstKey(s) ==
    LET rest == SubSeq(s, FirstKey(s) + Len(AuthKey), Len(s))
        amps == {i \in 1..Len(rest) : rest[i] = "&"}
    IN  IF amps = {} THEN rest
        ELSE SubSeq(rest, 1, (CHOOSE i \in amps : \A j \in amps : i <= j) - 1)

\* C4: for a pasted string with "auth_code=", the code handed to set_token
\* is the text after the first "auth_code=" up to the next "&" or the end of
\* the string, an empty code included.
C4_CodeAfterFirstKey ==
    (redirect_url # PyNone /\ Occurs(redirect_url.val, AuthKey)) =>
        /\ Count("set_token") = 1
        /\ session_token = PyStr(CodeAfterFirstKey(redirect_url.val))

\* C5: test_token returns True for status "ok" with a data mapping, False for
\* a status that is absent or not "ok", and False, never an exception, when
\* get_profile raises.
C5_TestTokenResult ==
    (profile # NoResponse) =>
        /\ pc \in {"validated", "done"}
        /\ valid \in {[type |-> "bool", val |-> TRUE], [type |-> "bool", val |-> FALSE]}
        /\ profile.raised => valid.val = FALSE
        /\ (/\ ~profile.raised
            /\ HasKey(profile.value, "s")
            /\ profile.value.s.val = Ok
            /\ HasKey(profile.value, "data")
            /\ profile.value.data.type = "dict") => valid.val = TRUE
        /\ (/\ ~profile.raised
            /\ (HasKey(profile.value, "s") => profile.value.s.val # Ok))
               => valid.val = FALSE

C5_Witness ==
    /\ pc = "validated"
    /\ profile.raised
    /\ valid.val = FALSE

\* C6: authenticate_fyers returns None or a non-empty string, whatever the
\* response holds under access_token.
C6_NonEmptyOrNone ==
    AuthReturned => (token = PyNone \/ (IsStr(token) /\ token.val # <<>>))

C8_ClosingTextPrinted ==
    Ended =>
        /\ printed \in {"next_steps", "troubleshooting"}
        /\ printed = "next_steps" <=> Truthy(token)

\* the steps of a run in their order
Steps == <<"generate_authcode", "webbrowser_open", "input", "set_token",
           "generate_token", "write", "get_profile">>

\* C9: the steps of a run happen in the one order, each at most once, and a
\* run that ends before the last step left from the input step or from the
\* exchange step.
C9_LinearFlow ==
    /\ Len(calls) <= Len(Steps)
    /\ calls = SubSeq(Steps, 1, Len(calls))
    /\ (Ended /\ calls # Steps) =>
           calls[Len(calls)] \in {"input", "generate_token"}

\* C10: the entry point calls test_token once exactly when authenticate_fyers
\* returned a truthy token, after the file write; whatever test_token
\* returns, the file keeps the token and the "Next steps" text is printed.
C10_ValidationHasNoEffect ==
    /\ Count("get_profile") <= 1
    /\ (pc = "done") => (Count("get_profile") = 1 <=> Truthy(token))
    /\ Count("get_profile") = 1 =>
           /\ Truthy(token)
           /\ \E i, j \in 1..Len(calls) :
                  i < j /\ calls[i] = "write" /\ calls[j] = "get_profile"
           /\ file = [exists |-> TRUE, content |-> token.val]
    /\ (pc = "done" /\ Count("get_profile") = 1) => printed = "next_steps"

C10_Witness ==
    /\ pc = "done"
    /\ valid = [type |-> "bool", val |-> FALSE]
    /\ printed = "next_steps"
    /\ file.exists
    /\ file.content = token.val

====
